---- MODULE Spec2Model ----
(***************************************************************************)
(* A model of the JNI bridge between Java and the Mach IPC facility of     *)
(* hurd-java: MachPort handles (src/mach/MachPort.c), the raw Mach calls   *)
(* (src/mach/Mach.c), Hurd.getdport (src/hurd/Hurd.c) and the hello        *)
(* exchange (src/HelloMach.c).                                             *)
(*                                                                         *)
(* Its specifications share the variables:                                 *)
(*   Spec       MachPort handles: their creation, deallocation and         *)
(*              collection, in one thread;                                 *)
(*   SpecCache  the first uses of the metadata cache by two threads, which *)
(*              interleave at their accesses to it;                        *)
(*   SpecRaw    the raw names of Mach.Port.allocate and deallocate;        *)
(*   SpecMsg    the exchanges: Mach.msg and HelloMach.hello against the    *)
(*              kernel's mach_msg, with the fairness the kernel provides.  *)
(***************************************************************************)
EXTENDS Integers, Sequences, FiniteSets, TLC

(***************************************************************************)
(* Bounds of the model.                                                    *)
(***************************************************************************)
\* Port names of the task's IPC space are 1..MaxName.
MaxName == 3
\* MachPort objects the Java heap holds before NewObject runs out of memory.
MaxObjs == 2
\* User references one name holds at most (the kernel's limit is 65535).
MaxRefs == 3

Names == 1..MaxName
ObjIds == 1..MaxObjs

(***************************************************************************)
(* Values of <mach.h> and <jni.h> the sources use.                         *)
(***************************************************************************)
NULL == 0
MACH_PORT_NULL == 0
KERN_SUCCESS == 0
KERN_NO_SPACE == 3
KERN_RESOURCE_SHORTAGE == 6
KERN_INVALID_NAME == 15
KERN_INVALID_RIGHT == 17
KERN_INVALID_VALUE == 18
MACH_PORT_RIGHT_SEND == 0
MACH_PORT_RIGHT_RECEIVE == 1
MACH_PORT_RIGHT_PORT_SET == 3
MACH_PORT_RIGHT_DEAD_NAME == 4

\* No status reaches the caller (a void native method), and "does not apply".
NoStatus == 0 - 1
\* The rights mach_port_allocate creates; any other value is refused.
ValidRights ==
    {MACH_PORT_RIGHT_RECEIVE, MACH_PORT_RIGHT_PORT_SET, MACH_PORT_RIGHT_DEAD_NAME}
\* The values of the jint `right` a caller of Mach.Port.allocate passes.
Rights == ValidRights \cup {MACH_PORT_RIGHT_SEND}
\* What the read of an uninitialised mach_port_t may yield.
UninitValues == 0..MaxName
\* File descriptors a caller passes to Hurd.getdport; 1 is open, 2 is closed.
OpenFds == {1}
Fds == {1, 2}

VARIABLES
    table,          \* the kernel's IPC space of this task: name -> right
    clsState,       \* class MachPort: "uninit", "done" or the initialising thread
    cls_MachPort,   \* static jclass cls_MachPort
    nameID,         \* static jfieldID nameID
    ctorID,         \* static jmethodID ctorID
    initCount,      \* completed runs of initIDs
    objs,           \* the MachPort objects of the Java heap
    raw,            \* raw names Java holds from Mach.Port.allocate
    pc,             \* each thread's position; "ret" is the return to Java
    loc,            \* each thread's call: its locals and what its caller gets
    crashed,        \* "no", or what killed the process (an assert, undefined behaviour)
    mid_position,   \* static jmethodID mid_position of Mach.msg
    xpc,            \* the exchange: "idle", in mach_msg ("send", "rcv"), "kret"
    xcall,          \* the mach_msg call in progress: its caller and arguments
    buf,            \* hello's `msg` union, byte by byte
    wire,           \* what the peer got of hello's request, and what it replied
    timer,          \* what is left of the timeout the kernel is counting down
    result          \* what the last exchange gave its caller

portVars ==
    <<table, clsState, cls_MachPort, nameID, ctorID, initCount, objs, raw, pc,
      loc, crashed>>

msgVars == <<mid_position, xpc, xcall, buf, wire, timer, result>>

vars == <<portVars, msgVars>>

\* The threads of the process: one in Spec, two in SpecCache.
Threads == DOMAIN pc

(***************************************************************************)
(* The kernel: the task's IPC space.                                       *)
(***************************************************************************)
NoRight == [kind |-> "none", urefs |-> 0]

KindOf(right) ==
    CASE right = MACH_PORT_RIGHT_RECEIVE -> "receive"
      [] right = MACH_PORT_RIGHT_PORT_SET -> "port_set"
      [] right = MACH_PORT_RIGHT_DEAD_NAME -> "dead_name"
      [] OTHER -> "none"

FreeNames(tbl) == {n \in Names : tbl[n].kind = "none"}

\* mach_port_allocate(task, right, &name): the outcomes the kernel may give.
\* On failure *name is not written (wrote = FALSE).
mach_port_allocate(tbl, right) ==
    IF right \notin ValidRights
    THEN {[err |-> KERN_INVALID_VALUE, wrote |-> FALSE, name |-> 0, tbl |-> tbl]}
    ELSE IF FreeNames(tbl) = {}
    THEN {[err |-> KERN_NO_SPACE, wrote |-> FALSE, name |-> 0, tbl |-> tbl]}
    ELSE {[err |-> KERN_RESOURCE_SHORTAGE, wrote |-> FALSE, name |-> 0, tbl |-> tbl]}
         \cup
         {[err |-> KERN_SUCCESS, wrote |-> TRUE, name |-> n,
           tbl |-> [tbl EXCEPT ![n] = [kind |-> KindOf(right), urefs |-> 1]]]
            : n \in FreeNames(tbl)}

\* mach_port_deallocate(task, name): releases one user reference of a send
\* right or dead name; a receive right or port set is KERN_INVALID_RIGHT.
mach_port_deallocate(tbl, name) ==
    IF name \notin Names \/ tbl[name].kind = "none"
    THEN [err |-> KERN_INVALID_NAME, tbl |-> tbl]
    ELSE IF tbl[name].kind \in {"send", "dead_name"}
    THEN [err |-> KERN_SUCCESS,
          tbl |-> [tbl EXCEPT ![name] =
                      IF @.urefs = 1 THEN NoRight
                      ELSE [@ EXCEPT !.urefs = @ - 1]]]
    ELSE [err |-> KERN_INVALID_RIGHT, tbl |-> tbl]

\* The name of the send right the descriptor table keeps for descriptor fd.
DportName(fd) == fd

\* getdport(fd): a new user reference to the descriptor's port, or
\* MACH_PORT_NULL for a descriptor that is not open.
getdport(tbl, fd) ==
    IF fd \in OpenFds /\ tbl[DportName(fd)].kind = "send"
    THEN [name |-> DportName(fd),
          tbl |-> [tbl EXCEPT ![DportName(fd)].urefs = @ + 1]]
    ELSE [name |-> MACH_PORT_NULL, tbl |-> tbl]

InitTable ==
    [n \in Names |->
        IF n \in {DportName(fd) : fd \in OpenFds}
        THEN [kind |-> "send", urefs |-> 1] ELSE NoRight]

(***************************************************************************)
(* MachPort objects.                                                       *)
(***************************************************************************)
NoObj ==
    [exists |-> FALSE, name |-> 0, live |-> FALSE, kcalls |-> 0,
     released |-> FALSE, collected |-> FALSE, from |-> "none", owns |-> FALSE,
     wrapped |-> 0]

FreeObjs == {o \in ObjIds : ~objs[o].exists}
Usable == {o \in ObjIds : objs[o].exists /\ ~objs[o].collected}

\* new MachPort(name): the constructor stores the name in the field `name`.
\* The other fields are history: kcalls the kernel releases issued for the
\* object, released whether one succeeded, from the call that made the
\* object, owns whether that call handed makeport a reference, wrapped the
\* name makeport was given.
NewMachPort(name) ==
    [exists |-> TRUE, name |-> name, live |-> TRUE, kcalls |-> 0,
     released |-> FALSE, collected |-> FALSE, from |-> "none", owns |-> FALSE,
     wrapped |-> 0]

\* GetIntField without the test for a null object.
mach_java_getport_unchecked(obj) ==
    [val |-> IF obj # NULL THEN objs[obj].name ELSE objs[1].name,
     reads |-> {"nameID"}, ub |-> obj = NULL \/ nameID = NULL]

\* mach_java_getport(env, obj): the value, the cache variables the call reads,
\* and whether GetIntField was handed a null field ID (undefined behaviour).
mach_java_getport(obj) ==
    IF obj # NULL
    THEN [val |-> objs[obj].name, reads |-> {"nameID"}, ub |-> nameID = NULL]
    ELSE [val |-> MACH_PORT_NULL, reads |-> {}, ub |-> FALSE]

\* A thread's call: op is the entry point, name the port name it handles, kerr
\* the kernel's status, cont where class initialisation continues; obj, value
\* and reported are what the Java caller gets (the object, the jint, the
\* status); reads the cache variables read; right the right asked for; nth is 1
\* for the first deallocation of a handle or name and 2 for a later one.
NoLoc ==
    [op |-> "none", name |-> 0, kerr |-> NoStatus, cont |-> "idle", obj |-> 0,
     value |-> NoStatus, reported |-> NoStatus, reads |-> {}, nth |-> 0,
     right |-> NoStatus]

InitCache ==
    /\ clsState = "uninit"
    /\ cls_MachPort = "NULL"
    /\ nameID = NULL
    /\ ctorID = NULL
    /\ initCount = 0

InitPorts(threads) ==
    /\ table = InitTable
    /\ InitCache
    /\ objs = [o \in ObjIds |-> NoObj]
    /\ raw = [n \in Names |-> "none"]
    /\ pc = [t \in threads |-> "idle"]
    /\ loc = [t \in threads |-> NoLoc]
    /\ crashed = "no"

\* No exchange is in progress and none has been made.
NoXcall ==
    [who |-> "none", port |-> NULL, reads |-> {}, asked |-> 0, option |-> 0,
     send_size |-> 0,
     rcv_size |-> 0, rcv_name |-> MACH_PORT_NULL, timeout |-> 0,
     notify |-> MACH_PORT_NULL, bufsize |-> 0, dest |-> MACH_PORT_NULL,
     reply |-> MACH_PORT_NULL, qfull |-> FALSE, waited |-> FALSE,
     delivered |-> FALSE, fresh |-> FALSE, ret |-> NoStatus]

NoWire ==
    [sent |-> FALSE, dest |-> 0, reply |-> 0, id |-> 0, data |-> <<>>,
     offset |-> 0, replied |-> FALSE, rc |-> 0, amt |-> 0]

NoResult == [who |-> "none", port |-> NULL, err |-> NoStatus, rc |-> 0, amt |-> 0]

InitMsgVars ==
    /\ mid_position = NULL
    /\ xpc = "idle"
    /\ xcall = NoXcall
    /\ buf = <<>>
    /\ wire = NoWire
    /\ timer = 0
    /\ result = NoResult

Init == InitPorts({"t1"}) /\ InitMsgVars

InitCacheRace == InitPorts({"t1", "t2"}) /\ InitMsgVars

\* The process dies: its threads, its heap and its IPC space go with it.
Crash(cause) ==
    /\ crashed' = cause
    /\ table' = [n \in Names |-> NoRight]
    /\ clsState' = "uninit"
    /\ cls_MachPort' = "NULL"
    /\ nameID' = NULL
    /\ ctorID' = NULL
    /\ initCount' = 0
    /\ objs' = [o \in ObjIds |-> NoObj]
    /\ raw' = [n \in Names |-> "none"]
    /\ pc' = [t \in Threads |-> "dead"]
    /\ loc' = [t \in Threads |-> NoLoc]
    /\ mid_position' = NULL
    /\ xpc' = "idle"
    /\ xcall' = NoXcall
    /\ buf' = <<>>
    /\ wire' = NoWire
    /\ timer' = 0
    /\ result' = NoResult

\* The native method returns to its Java caller.
Return(t) ==
    /\ pc[t] = "ret"
    /\ pc' = [pc EXCEPT ![t] = "idle"]
    /\ loc' = [loc EXCEPT ![t] = NoLoc]
    /\ UNCHANGED <<msgVars, table, clsState, cls_MachPort, nameID, ctorID, initCount, objs,
                   raw, crashed>>

(***************************************************************************)
(* Class initialisation of org.gnu.mach.MachPort: the static initialiser   *)
(* calls initIDs once, in the thread that first uses the class; any other  *)
(* thread that needs the class waits until it is done.                     *)
(***************************************************************************)
ClassInit(t) ==
    /\ pc[t] = "clinit"
    /\ \/ /\ clsState = "done"
          /\ pc' = [pc EXCEPT ![t] = loc[t].cont]
          /\ UNCHANGED clsState
       \/ /\ clsState = "uninit"
          /\ clsState' = t
          /\ pc' = [pc EXCEPT ![t] = "init13"]
    /\ UNCHANGED <<msgVars, table, cls_MachPort, nameID, ctorID, initCount, objs, raw, loc,
                   crashed>>

\* initIDs, line 13: cls_MachPort = cls (a local reference of this call).
InitIDs13(t) ==
    /\ pc[t] = "init13"
    /\ cls_MachPort' = "local"
    /\ pc' = [pc EXCEPT ![t] = "init14"]
    /\ UNCHANGED <<msgVars, table, clsState, nameID, ctorID, initCount, objs, raw, loc,
                   crashed>>

\* initIDs, line 14: nameID = GetFieldID(cls_MachPort, "name", "I").
InitIDs14(t) ==
    /\ pc[t] = "init14"
    /\ nameID' = 1
    /\ pc' = [pc EXCEPT ![t] = "init15"]
    /\ UNCHANGED <<msgVars, table, clsState, cls_MachPort, ctorID, initCount, objs, raw, loc,
                   crashed>>

\* initIDs, line 15: ctorID = GetMethodID(cls_MachPort, "<init>", "(I)V").
InitIDs15(t) ==
    /\ pc[t] = "init15"
    /\ ctorID' = 1
    /\ pc' = [pc EXCEPT ![t] = "init16"]
    /\ UNCHANGED <<msgVars, table, clsState, cls_MachPort, nameID, initCount, objs, raw, loc,
                   crashed>>

\* initIDs, lines 16-17: the assertion (nameID was just set), then the return,
\* which completes the class's initialisation. The local reference kept in
\* cls_MachPort dies with the call's frame.
InitIDs16(t) ==
    /\ pc[t] = "init16"
    /\ nameID # NULL
    /\ cls_MachPort' = "stale"
    /\ clsState' = "done"
    /\ initCount' = initCount + 1
    /\ pc' = [pc EXCEPT ![t] = loc[t].cont]
    /\ UNCHANGED <<msgVars, table, nameID, ctorID, objs, raw, loc, crashed>>

(***************************************************************************)
(* mach_java_makeport.                                                     *)
(***************************************************************************)
\* line 21: if(!cls_MachPort)
MakePort21(t) ==
    /\ pc[t] = "mk21"
    /\ pc' = [pc EXCEPT ![t] = IF cls_MachPort = "NULL" THEN "mk23" ELSE "mk26"]
    /\ UNCHANGED <<msgVars, table, clsState, cls_MachPort, nameID, ctorID, initCount, objs,
                   raw, loc, crashed>>

\* lines 23-24: FindClass, which initialises the class, or fails (the class
\* cannot be loaded) and leaves an exception pending; its result is dropped.
MakePort23(t) ==
    /\ pc[t] = "mk23"
    /\ \/ /\ clsState = "uninit"
          /\ pc' = [pc EXCEPT ![t] = "mk26"]
          /\ UNCHANGED loc
       \/ /\ pc' = [pc EXCEPT ![t] = "clinit"]
          /\ loc' = [loc EXCEPT ![t].cont = "mk26"]
    /\ UNCHANGED <<msgVars, table, clsState, cls_MachPort, nameID, ctorID, initCount, objs,
                   raw, crashed>>

\* What NewObject(env, cls, ctor, name) may do: construct the object, return
\* NULL (out of memory, or a null class or constructor refused), or kill the
\* process. cls_MachPort never holds a valid reference here (it is null,
\* another thread's local reference, or a local reference whose frame has
\* returned), so the call may always die.
NewObjectOutcomes(cls, ctor) ==
    {"null", "crash"} \cup
    (IF cls # "NULL" /\ ctor # NULL /\ FreeObjs # {} THEN {"object"} ELSE {})

\* The object NewObject allocates.
NewObj == CHOOSE x \in FreeObjs : \A y \in FreeObjs : x <= y

\* The calls that end in mach_java_makeport, and whether call l handed it a
\* reference: a descriptor's port, or a right the kernel did allocate.
MakeOps == {"Hurd.getdport", "MachPort.allocate"}
HandedRef(l) ==
    \/ l.op = "Hurd.getdport" /\ l.name # MACH_PORT_NULL
    \/ l.op = "MachPort.allocate" /\ l.kerr = KERN_SUCCESS

\* line 26: return NewObject(env, cls_MachPort, ctorID, (jint) name)
MakePort26(t) ==
    /\ pc[t] = "mk26"
    /\ \E out \in NewObjectOutcomes(cls_MachPort, ctorID) :
        CASE out = "object" ->
                /\ objs' = [objs EXCEPT ![NewObj] =
                               [NewMachPort(loc[t].name) EXCEPT
                                   !.from = loc[t].op, !.owns = HandedRef(loc[t]),
                                   !.wrapped = loc[t].name]]
                /\ loc' = [loc EXCEPT ![t].obj = NewObj]
                /\ pc' = [pc EXCEPT ![t] = "ret"]
                /\ UNCHANGED <<msgVars, table, clsState, cls_MachPort, nameID, ctorID,
                               initCount, raw, crashed>>
          [] out = "null" ->
                /\ loc' = [loc EXCEPT ![t].obj = NULL]
                /\ pc' = [pc EXCEPT ![t] = "ret"]
                /\ UNCHANGED <<msgVars, table, clsState, cls_MachPort, nameID, ctorID,
                               initCount, objs, raw, crashed>>
          [] OTHER -> Crash("NewObject")

(***************************************************************************)
(* Hurd.getdport(fd) and MachPort.allocate().                              *)
(***************************************************************************)
\* Hurd.c line 8: the argument getdport(fd), then the call of makeport.
Hurd_getdport(t, fd) ==
    /\ pc[t] = "idle"
    /\ FreeObjs # {}
    /\ fd \in OpenFds => table[DportName(fd)].urefs < MaxRefs
    /\ LET r == getdport(table, fd) IN
        /\ table' = r.tbl
        /\ loc' = [loc EXCEPT ![t] = [NoLoc EXCEPT !.op = "Hurd.getdport",
                                                   !.name = r.name]]
    /\ pc' = [pc EXCEPT ![t] = "mk21"]
    /\ UNCHANGED <<msgVars, clsState, cls_MachPort, nameID, ctorID, initCount, objs, raw,
                   crashed>>

\* The call of the static native MachPort.allocate(): the class is initialised
\* before its native code runs.
MachPort_allocate(t) ==
    /\ pc[t] = "idle"
    /\ FreeObjs # {}
    /\ loc' = [loc EXCEPT ![t] = [NoLoc EXCEPT !.op = "MachPort.allocate",
                                               !.cont = "alloc40"]]
    /\ pc' = [pc EXCEPT ![t] = "clinit"]
    /\ UNCHANGED <<msgVars, table, clsState, cls_MachPort, nameID, ctorID, initCount, objs,
                   raw, crashed>>

\* MachPort.c lines 40-45: the error is dropped, and `port` is read whether or
\* not the kernel wrote it.
MachPort_allocate40(t) ==
    /\ pc[t] = "alloc40"
    /\ \E r \in mach_port_allocate(table, MACH_PORT_RIGHT_RECEIVE) :
       \E port \in (IF r.wrote THEN {r.name} ELSE UninitValues) :
        /\ table' = r.tbl
        /\ loc' = [loc EXCEPT ![t].name = port, ![t].kerr = r.err]
    /\ pc' = [pc EXCEPT ![t] = "mk21"]
    /\ UNCHANGED <<msgVars, clsState, cls_MachPort, nameID, ctorID, initCount, objs, raw,
                   crashed>>

(***************************************************************************)
(* deallocate() and the finalizer of a MachPort, and the native method      *)
(* they call.                                                              *)
(***************************************************************************)
\* MachPort.c line 51: the kernel call nativeDeallocate makes for obj; its
\* status is dropped (the method is void).
\* kcalls counts the mach_port_deallocate calls made.
nativeDeallocate_twice(obj) ==
    LET r == mach_port_deallocate(table, mach_java_getport(obj).val)
        q == mach_port_deallocate(r.tbl, mach_java_getport(obj).val) IN
    [err |-> q.err, tbl |-> q.tbl, kcalls |-> 2]

nativeDeallocate(obj) ==
    LET r == mach_port_deallocate(table, mach_java_getport(obj).val) IN
    [err |-> r.err, tbl |-> r.tbl, kcalls |-> 1]

\* The object after a deallocate() call that found it live (r is the kernel's
\* answer to nativeDeallocate) or dead (no native call is made).
AfterDeallocate(ob, r) ==
    IF ob.live
    THEN [ob EXCEPT !.live = FALSE, !.kcalls = @ + r.kcalls,
                    !.released = r.err = KERN_SUCCESS]
    ELSE ob

\* MachPort.deallocate() of the Java class: releases the right of a live
\* handle through nativeDeallocate and marks the handle deallocated.
Deallocate(t, o) ==
    /\ pc[t] = "idle"
    /\ o \in Usable
    /\ LET r == nativeDeallocate(o) IN
        /\ table' = IF objs[o].live THEN r.tbl ELSE table
        /\ objs' = [objs EXCEPT ![o] = AfterDeallocate(@, r)]
        /\ loc' = [loc EXCEPT ![t] =
                     [NoLoc EXCEPT !.op = "deallocate", !.obj = o,
                                   !.name = objs[o].name,
                                   !.nth = IF objs[o].live THEN 1 ELSE 2,
                                   !.kerr = IF objs[o].live THEN r.err ELSE NoStatus]]
    /\ pc' = [pc EXCEPT ![t] = "ret"]
    /\ UNCHANGED <<msgVars, clsState, cls_MachPort, nameID, ctorID, initCount, raw, crashed>>

\* The collection of an object: its finalizer deallocates it.
Finalize(o) ==
    /\ crashed = "no"
    /\ o \in Usable
    /\ \A t \in Threads : loc[t].obj # o
    /\ LET r == nativeDeallocate(o) IN
        /\ table' = IF objs[o].live THEN r.tbl ELSE table
        /\ objs' = [objs EXCEPT ![o] = [AfterDeallocate(@, r) EXCEPT
                                           !.name = 0, !.collected = TRUE,
                                           !.from = "none", !.owns = FALSE,
                                           !.wrapped = 0]]
    /\ UNCHANGED <<msgVars, clsState, cls_MachPort, nameID, ctorID, initCount, raw, pc, loc,
                   crashed>>

\* A native caller reads a handle's name (MachPort.c lines 29-32).
GetPort(t, o) ==
    /\ pc[t] = "idle"
    /\ o \in Usable \cup {NULL}
    /\ LET g == mach_java_getport(o) IN
        IF g.ub THEN Crash("GetIntField")
        ELSE /\ loc' = [loc EXCEPT ![t] =
                          [NoLoc EXCEPT !.op = "getport", !.obj = o,
                                        !.value = g.val, !.reads = g.reads]]
             /\ pc' = [pc EXCEPT ![t] = "ret"]
             /\ UNCHANGED <<msgVars, table, clsState, cls_MachPort, nameID, ctorID,
                            initCount, objs, raw, crashed>>

(***************************************************************************)
(* Mach.Port.allocate and Mach.Port.deallocate: raw names.                 *)
(***************************************************************************)
\* Mach.c lines 42-45: the kernel's failure fails the assertion.
Port_allocate(t, right) ==
    /\ pc[t] = "idle"
    /\ \E r \in mach_port_allocate(table, right) :
        IF r.err # KERN_SUCCESS THEN Crash("assert:Mach.Port.allocate")
        ELSE /\ table' = r.tbl
             /\ raw' = [raw EXCEPT ![r.name] = "fresh"]
             /\ loc' = [loc EXCEPT ![t] =
                          [NoLoc EXCEPT !.op = "Mach.Port.allocate",
                                        !.name = r.name, !.kerr = r.err,
                                        !.value = r.name, !.right = right]]
             /\ pc' = [pc EXCEPT ![t] = "ret"]
             /\ UNCHANGED <<msgVars, clsState, cls_MachPort, nameID, ctorID, initCount, objs,
                            crashed>>

\* Mach.c line 51: the kernel's status is the method's result. The caller
\* passes a name it got from Mach.Port.allocate, for the first time ("fresh")
\* or again ("used").
Port_deallocate(t, name) ==
    /\ pc[t] = "idle"
    /\ raw[name] # "none"
    /\ LET r == mach_port_deallocate(table, name) IN
        /\ table' = r.tbl
        /\ loc' = [loc EXCEPT ![t] =
                     [NoLoc EXCEPT !.op = "Mach.Port.deallocate", !.name = name,
                                   !.kerr = r.err, !.value = r.err,
                                   !.reported = r.err,
                                   !.nth = IF raw[name] = "fresh" THEN 1 ELSE 2]]
    /\ raw' = [raw EXCEPT ![name] = "used"]
    /\ pc' = [pc EXCEPT ![t] = "ret"]
    /\ UNCHANGED <<msgVars, clsState, cls_MachPort, nameID, ctorID, initCount, objs, crashed>>

Next ==
    \/ \E t \in Threads : Return(t)
    \/ \E t \in Threads : ClassInit(t)
    \/ \E t \in Threads : InitIDs13(t)
    \/ \E t \in Threads : InitIDs14(t)
    \/ \E t \in Threads : InitIDs15(t)
    \/ \E t \in Threads : InitIDs16(t)
    \/ \E t \in Threads : MakePort21(t)
    \/ \E t \in Threads : MakePort23(t)
    \/ \E t \in Threads : MakePort26(t)
    \/ \E t \in Threads, fd \in Fds : Hurd_getdport(t, fd)
    \/ \E t \in Threads : MachPort_allocate(t)
    \/ \E t \in Threads : MachPort_allocate40(t)
    \/ \E t \in Threads, o \in ObjIds : Deallocate(t, o)
    \/ \E o \in ObjIds : Finalize(o)
    \/ \E t \in Threads, o \in ObjIds \cup {NULL} : GetPort(t, o)

Spec == Init /\ [][Next]_vars

\* The raw names of Mach.c.
NextRaw ==
    \/ \E t \in Threads : Return(t)
    \/ \E t \in Threads, right \in Rights : Port_allocate(t, right)
    \/ \E t \in Threads, name \in Names : Port_deallocate(t, name)

SpecRaw == Init /\ [][NextRaw]_vars

\* The first uses of the metadata cache by two threads.
NextCache ==
    \/ \E t \in Threads : Return(t)
    \/ \E t \in Threads : ClassInit(t)
    \/ \E t \in Threads : InitIDs13(t)
    \/ \E t \in Threads : InitIDs14(t)
    \/ \E t \in Threads : InitIDs15(t)
    \/ \E t \in Threads : InitIDs16(t)
    \/ \E t \in Threads : MakePort21(t)
    \/ \E t \in Threads : MakePort23(t)
    \/ \E t \in Threads : MakePort26(t)
    \/ \E t \in Threads, fd \in Fds : Hurd_getdport(t, fd)
    \/ \E t \in Threads : MachPort_allocate(t)
    \/ \E t \in Threads : MachPort_allocate40(t)

SpecCache == InitCacheRace /\ [][NextCache]_vars

(***************************************************************************)
(* Messages.  The layout of a C struct on the 32-bit target of the GNU     *)
(* Hurd: every member is placed at the next multiple of its alignment, and *)
(* the struct is padded to a multiple of its strictest alignment.          *)
(***************************************************************************)
Field(n, s, a) == [name |-> n, size |-> s, align |-> a]

AlignUp(x, a) == ((x + a - 1) \div a) * a

Max(a, b) == IF a >= b THEN a ELSE b

RECURSIVE OffsetsFrom(_, _)
OffsetsFrom(fs, x) ==
    IF fs = <<>> THEN <<>>
    ELSE LET o == AlignUp(x, Head(fs).align)
         IN  <<o>> \o OffsetsFrom(Tail(fs), o + Head(fs).size)

RECURSIVE MaxAlign(_)
MaxAlign(fs) == IF fs = <<>> THEN 1 ELSE Max(Head(fs).align, MaxAlign(Tail(fs)))

Sizeof(fs) ==
    LET n == Len(fs)
    IN  AlignUp(OffsetsFrom(fs, 0)[n] + fs[n].size, MaxAlign(fs))

OffsetOf(fs, name) ==
    OffsetsFrom(fs, 0)[CHOOSE i \in 1..Len(fs) : fs[i].name = name]

\* mach_msg_header_t: six 32-bit words.
mach_msg_header_t ==
    << Field("msgh_bits", 4, 4), Field("msgh_size", 4, 4),
       Field("msgh_remote_port", 4, 4), Field("msgh_local_port", 4, 4),
       Field("msgh_seqno", 4, 4), Field("msgh_id", 4, 4) >>

\* mach_msg_type_t is one bit-field word; mach_msg_type_long_t is that word
\* followed by two shorts and a natural_t.
sizeof_mach_msg_type_t == 4
sizeof_mach_msg_type_long_t == 12

\* The length of "Hello, World!\n", which data[14] holds without a NUL.
DataLen == 14

\* struct { hdr; dataType; data[14]; offsetType; offset; } req
req ==
    << Field("hdr", Sizeof(mach_msg_header_t), 4),
       Field("dataType", sizeof_mach_msg_type_long_t, 4),
       Field("data", DataLen, 1),
       Field("offsetType", sizeof_mach_msg_type_t, 4),
       Field("offset", 8, 4) >>

\* A reply struct that leaves out the descriptor of `amount`.
rep_without_amountType ==
    << Field("hdr", Sizeof(mach_msg_header_t), 4),
       Field("RetCodeType", sizeof_mach_msg_type_t, 4),
       Field("RetCode", 4, 4),
       Field("amount", 4, 4),
       Field("unused", 100, 1) >>

\* struct { hdr; RetCodeType; RetCode; amountType; amount; unused[100]; } rep
rep ==
    << Field("hdr", Sizeof(mach_msg_header_t), 4),
       Field("RetCodeType", sizeof_mach_msg_type_t, 4),
       Field("RetCode", 4, 4),
       Field("amountType", sizeof_mach_msg_type_t, 4),
       Field("amount", 4, 4),
       Field("unused", 100, 1) >>

\* A buffer that has room for the request only.
sizeof_msg_request_only == Sizeof(req)

\* union { req; rep; } msg
sizeof_msg == Max(Sizeof(req), Sizeof(rep))

(***************************************************************************)
(* Bytes.  The target is little-endian; a byte of automatic storage that   *)
(* was never written is Uninit.                                            *)
(***************************************************************************)
Uninit == 0 - 1

RECURSIVE LE(_, _)
LE(v, n) == IF n = 0 THEN <<>> ELSE <<v % 256>> \o LE(v \div 256, n - 1)

RECURSIVE DecU(_)
DecU(bytes) == IF bytes = <<>> THEN 0 ELSE Head(bytes) + 256 * DecU(Tail(bytes))

\* A two's-complement integer of Len(bytes) bytes.
RECURSIVE DecS(_)
DecS(bytes) ==
    IF Len(bytes) = 1
    THEN IF bytes[1] >= 128 THEN bytes[1] - 256 ELSE bytes[1]
    ELSE Head(bytes) + 256 * DecS(Tail(bytes))

Defined(bytes) == \A i \in 1..Len(bytes) : bytes[i] # Uninit

Put(b, off, bytes) ==
    [i \in 1..Len(b) |->
        IF i > off /\ i <= off + Len(bytes) THEN bytes[i - off] ELSE b[i]]

Get(b, off, n) == SubSeq(b, off + 1, off + n)

\* What an int read from uninitialised or foreign bytes may hold.
Garbage == {0 - 1, 0, 1}

ReadInt(b, off) ==
    IF Defined(Get(b, off, 4)) THEN {DecS(Get(b, off, 4))} ELSE Garbage

(***************************************************************************)
(* <mach/message.h>                                                        *)
(***************************************************************************)
MACH_MSG_TYPE_INTEGER_32 == 2
MACH_MSG_TYPE_CHAR == 8
MACH_MSG_TYPE_INTEGER_64 == 11
MACH_MSG_TYPE_PORT_SEND_ONCE == 18
MACH_MSG_TYPE_COPY_SEND == 19
MACH_MSG_TYPE_MAKE_SEND_ONCE == 21

MACH_MSGH_BITS(remote, local) == remote + 256 * local

MACH_SEND_MSG == 1
MACH_RCV_MSG == 2
MACH_SEND_TIMEOUT == 16
MACH_RCV_TIMEOUT == 256
MACH_MSG_TIMEOUT_NONE == 0

MACH_MSG_SUCCESS == 0
MACH_SEND_MSG_TOO_SMALL == 268435464
MACH_SEND_INVALID_DEST == 268435459
MACH_SEND_TIMED_OUT == 268435460
MACH_SEND_INVALID_REPLY == 268435465
MACH_RCV_INVALID_NAME == 268451842
MACH_RCV_TIMED_OUT == 268451843
MACH_RCV_TOO_LARGE == 268451844

\* option & flag, for a flag that is one bit.
Has(option, flag) == (option \div flag) % 2 = 1

\* The bit-fields of mach_msg_type_t, low bits first: msgt_name:8,
\* msgt_size:8, msgt_number:12, msgt_inline:1, msgt_longform:1,
\* msgt_deallocate:1, msgt_unused:1.
mach_msg_type_t(name, size, number, inline, longform, deallocate) ==
    << name, size, number % 256,
       (number \div 256) + 16 * inline + 32 * longform + 64 * deallocate >>

\* mach_msg_type_long_t: the header word, then msgtl_name, msgtl_size (two
\* shorts) and msgtl_number.
mach_msg_type_long_t(name, size, number, inline, deallocate) ==
    mach_msg_type_t(0, 0, 0, inline, 1, deallocate)
        \o LE(name, 2) \o LE(size, 2) \o LE(number, 4)

\* In a message, the data of an item follows its descriptor and is padded to
\* a multiple of four bytes; the first descriptor follows the header.  Each
\* item is <<bytes of the descriptor, bytes of the data>>; the result is the
\* offset of the data of each item.
RECURSIVE ItemOffsetsFrom(_, _)
ItemOffsetsFrom(items, x) ==
    IF items = <<>> THEN <<>>
    ELSE LET d == x + Head(items)[1]
         IN  <<d>> \o ItemOffsetsFrom(Tail(items), AlignUp(d + Head(items)[2], 4))

\* The request as the file server's write RPC (io_write, id 21000) lays it
\* out: a long-form descriptor with the characters, a descriptor with the
\* 64-bit offset.
io_write_request == << <<sizeof_mach_msg_type_long_t, DataLen>>,
                       <<sizeof_mach_msg_type_t, 8>> >>

\* Its reply: the return code and the amount written, each an int with its
\* descriptor.
io_write_reply == << <<sizeof_mach_msg_type_t, 4>>, <<sizeof_mach_msg_type_t, 4>> >>

ItemOffset(items, i) == ItemOffsetsFrom(items, Sizeof(mach_msg_header_t))[i]

ItemsSize(items) ==
    LET n == Len(items)
    IN  AlignUp(ItemOffset(items, n) + items[n][2], 4)

io_write_id == 21000

\* "Hello, World!\n"
HelloWorld == <<72, 101, 108, 108, 111, 44, 32, 87, 111, 114, 108, 100, 33, 10>>

(***************************************************************************)
(* mach_msg in the kernel.  A call first sends (if MACH_SEND_MSG), then    *)
(* receives (if MACH_RCV_MSG).  It waits while the destination's queue is  *)
(* full and while no message has arrived; MACH_SEND_TIMEOUT and            *)
(* MACH_RCV_TIMEOUT bound those waits by `timeout`, which is ignored       *)
(* without them.                                                           *)
(***************************************************************************)
MaxTimeout == 1

InKernel == xpc \in {"send", "rcv"}

IsRight(name, kinds) == name \in Names /\ table[name].kind \in kinds

\* The status with which the send fails at once, or MACH_MSG_SUCCESS.
SendError(c) ==
    IF c.send_size < Sizeof(mach_msg_header_t) THEN MACH_SEND_MSG_TOO_SMALL
    ELSE IF ~IsRight(c.dest, {"send"}) THEN MACH_SEND_INVALID_DEST
    ELSE IF c.reply # MACH_PORT_NULL /\ ~IsRight(c.reply, {"receive"})
    THEN MACH_SEND_INVALID_REPLY
    ELSE MACH_MSG_SUCCESS

\* The call goes on after its send phase.
EnterRcv(c) ==
    IF ~Has(c.option, MACH_RCV_MSG)
    THEN /\ xpc' = "kret"
         /\ xcall' = [c EXCEPT !.ret = MACH_MSG_SUCCESS]
         /\ timer' = 0
    ELSE IF ~IsRight(c.rcv_name, {"receive", "port_set"})
    THEN /\ xpc' = "kret"
         /\ xcall' = [c EXCEPT !.ret = MACH_RCV_INVALID_NAME]
         /\ timer' = 0
    ELSE /\ xpc' = "rcv"
         /\ xcall' = [c EXCEPT !.waited = TRUE]
         /\ timer' = c.timeout

\* What the peer reads in hello's request, at the offsets of io_write.
PeerView(b) ==
    [sent |-> TRUE,
     dest |-> DecU(Get(b, OffsetOf(mach_msg_header_t, "msgh_remote_port"), 4)),
     reply |-> DecU(Get(b, OffsetOf(mach_msg_header_t, "msgh_local_port"), 4)),
     id |-> DecS(Get(b, OffsetOf(mach_msg_header_t, "msgh_id"), 4)),
     data |-> Get(b, ItemOffset(io_write_request, 1), DataLen),
     offset |-> DecS(Get(b, ItemOffset(io_write_request, 2), 8)),
     replied |-> FALSE, rc |-> 0, amt |-> 0]

\* The send phase: the message is queued, or refused.
KSend ==
    /\ xpc = "send"
    /\ IF ~Has(xcall.option, MACH_SEND_MSG)
       THEN EnterRcv(xcall) /\ UNCHANGED wire
       ELSE IF SendError(xcall) # MACH_MSG_SUCCESS
       THEN /\ xpc' = "kret"
            /\ xcall' = [xcall EXCEPT !.ret = SendError(xcall)]
            /\ timer' = 0
            /\ UNCHANGED wire
       ELSE /\ ~xcall.qfull
            /\ EnterRcv(xcall)
            /\ wire' = IF xcall.who = "hello" THEN PeerView(buf)
                       ELSE [NoWire EXCEPT !.sent = TRUE]
    /\ UNCHANGED <<portVars, mid_position, buf, result>>

SendBlocked ==
    /\ xpc = "send"
    /\ Has(xcall.option, MACH_SEND_MSG)
    /\ SendError(xcall) = MACH_MSG_SUCCESS
    /\ xcall.qfull

\* The receiver takes a message off the destination's full queue.
QueueDrain ==
    /\ SendBlocked
    /\ xcall' = [xcall EXCEPT !.qfull = FALSE]
    /\ UNCHANGED <<portVars, mid_position, xpc, buf, wire, timer, result>>

\* A millisecond of a bounded wait passes.
Tick ==
    /\ \/ SendBlocked /\ Has(xcall.option, MACH_SEND_TIMEOUT)
       \/ xpc = "rcv" /\ Has(xcall.option, MACH_RCV_TIMEOUT)
    /\ timer > 0
    /\ timer' = timer - 1
    /\ UNCHANGED <<portVars, mid_position, xpc, xcall, buf, wire, result>>

SendTimeout ==
    /\ SendBlocked
    /\ Has(xcall.option, MACH_SEND_TIMEOUT)
    /\ timer = 0
    /\ xpc' = "kret"
    /\ xcall' = [xcall EXCEPT !.ret = MACH_SEND_TIMED_OUT]
    /\ UNCHANGED <<portVars, mid_position, buf, wire, timer, result>>

RcvTimeout ==
    /\ xpc = "rcv"
    /\ Has(xcall.option, MACH_RCV_TIMEOUT)
    /\ timer = 0
    /\ xpc' = "kret"
    /\ xcall' = [xcall EXCEPT !.ret = MACH_RCV_TIMED_OUT]
    /\ UNCHANGED <<portVars, mid_position, buf, wire, timer, result>>

\* The peer's answers to io_write: success with the amount written, or an
\* error (EBADF) with no amount.
EBADF == 1073741833
io_write_reply_id == io_write_id + 100
PeerAnswers ==
    {[rc |-> 0, amt |-> DataLen], [rc |-> 0, amt |-> 5], [rc |-> EBADF, amt |-> 0]}

\* The reply message as the kernel writes it into the receiver's buffer.
ReplyBytes(local, ans) ==
    LE(MACH_MSGH_BITS(0, MACH_MSG_TYPE_PORT_SEND_ONCE), 4)
        \o LE(IF ans.rc = 0 THEN ItemsSize(io_write_reply)
              ELSE ItemsSize(<<io_write_reply[1]>>), 4)
        \o LE(MACH_PORT_NULL, 4) \o LE(local, 4) \o LE(0, 4)
        \o LE(io_write_reply_id, 4)
        \o mach_msg_type_t(MACH_MSG_TYPE_INTEGER_32, 32, 1, 1, 0, 0)
        \o LE(ans.rc, 4)
        \o (IF ans.rc = 0
            THEN mach_msg_type_t(MACH_MSG_TYPE_INTEGER_32, 32, 1, 1, 0, 0)
                     \o LE(ans.amt, 4)
            ELSE <<>>)

\* The sizes of the messages other tasks send to a port Mach.msg receives on.
ArrivingSizes == {24, 48}

\* A message arrives on the port the call receives on: for hello the peer's
\* reply to the request it got, for Mach.msg a message of some size.
Deliver ==
    /\ xpc = "rcv"
    /\ \/ /\ xcall.who = "hello"
          /\ wire.sent /\ ~wire.replied
          /\ \E ans \in PeerAnswers :
               LET bytes == ReplyBytes(xcall.rcv_name, ans)
               IN  IF Len(bytes) > xcall.rcv_size
                   THEN /\ xcall' = [xcall EXCEPT !.ret = MACH_RCV_TOO_LARGE,
                                                  !.delivered = TRUE]
                        /\ UNCHANGED <<buf, wire>>
                   ELSE /\ xcall' = [xcall EXCEPT !.ret = MACH_MSG_SUCCESS,
                                                  !.delivered = TRUE]
                        /\ buf' = Put(buf, 0, bytes)
                        /\ wire' = [wire EXCEPT !.replied = TRUE, !.rc = ans.rc,
                                                !.amt = ans.amt]
       \/ /\ xcall.who = "Mach.msg"
          /\ \E sz \in ArrivingSizes :
               xcall' = [xcall EXCEPT
                            !.ret = IF sz > xcall.rcv_size THEN MACH_RCV_TOO_LARGE
                                    ELSE MACH_MSG_SUCCESS,
                            !.delivered = TRUE]
          /\ UNCHANGED <<buf, wire>>
    /\ xpc' = "kret"
    /\ UNCHANGED <<portVars, mid_position, timer, result>>

(***************************************************************************)
(* HelloMach.c: Java_HelloMach_hello.                                      *)
(***************************************************************************)
RECURSIVE PutAll(_, _)
PutAll(b, writes) ==
    IF writes = <<>> THEN b
    ELSE PutAll(Put(b, Head(writes)[1], Head(writes)[2]), Tail(writes))

\* lines 35-60: the members of msg.req that hello assigns; the rest of the
\* union keeps whatever the stack held.
HelloRequest(stdoutp, replyp) ==
    LET hdr(f) == OffsetOf(req, "hdr") + OffsetOf(mach_msg_header_t, f)
    IN  PutAll([i \in 1..sizeof_msg |-> Uninit],
           << <<hdr("msgh_bits"),
                LE(MACH_MSGH_BITS(MACH_MSG_TYPE_COPY_SEND,
                                  MACH_MSG_TYPE_MAKE_SEND_ONCE), 4)>>,
              <<hdr("msgh_remote_port"), LE(stdoutp, 4)>>,
              <<hdr("msgh_local_port"), LE(replyp, 4)>>,
              <<hdr("msgh_id"), LE(io_write_id, 4)>>,
              <<OffsetOf(req, "dataType"),
                mach_msg_type_long_t(MACH_MSG_TYPE_CHAR, 8, DataLen, 1, 0)>>,
              <<OffsetOf(req, "data"), HelloWorld>>,
              <<OffsetOf(req, "offsetType"),
                mach_msg_type_t(MACH_MSG_TYPE_INTEGER_64, 64, 1, 1, 0, 0)>>,
              <<OffsetOf(req, "offset"), LE(0 - 1, 8)>> >>)

\* lines 32-62: up to the entry into mach_msg.  The status of
\* mach_port_allocate is dropped: when it fails replyp is never written.
HelloCall(port) ==
    /\ crashed = "no"
    /\ xpc = "idle"
    /\ \A t \in Threads : pc[t] = "idle"
    /\ LET g == mach_java_getport(port)
       IN  IF g.ub
           THEN Crash("GetIntField")
           ELSE \E r \in mach_port_allocate(table, MACH_PORT_RIGHT_RECEIVE),
                   garbage \in UninitValues, full \in BOOLEAN :
                  LET replyp == IF r.wrote THEN r.name ELSE garbage
                      b == HelloRequest(g.val, replyp)
                  IN  /\ r.wrote => garbage = 0
                      /\ table' = r.tbl
                      /\ buf' = b
                      /\ xcall' =
                           [NoXcall EXCEPT
                              !.who = "hello", !.port = port, !.reads = g.reads,
                              !.asked = MACH_SEND_MSG + MACH_RCV_MSG,
                              !.option = MACH_SEND_MSG + MACH_RCV_MSG,
                              !.send_size = Sizeof(req), !.rcv_size = Sizeof(rep),
                              !.rcv_name = replyp,
                              !.timeout = MACH_MSG_TIMEOUT_NONE,
                              !.notify = MACH_PORT_NULL, !.bufsize = Len(b),
                              !.dest = PeerView(b).dest, !.reply = PeerView(b).reply,
                              !.qfull = full, !.fresh = r.wrote]
                      /\ xpc' = "send"
                      /\ timer' = xcall'.timeout
                      /\ wire' = NoWire
                      /\ result' = NoResult
                      /\ UNCHANGED <<clsState, cls_MachPort, nameID, ctorID,
                                     initCount, objs, raw, pc, loc, crashed,
                                     mid_position>>

\* lines 71-74: hello prints the status and the two reply fields, read at
\* their places in msg.rep, and drops its reference to replyp.
HelloReturn ==
    /\ xpc = "kret"
    /\ xcall.who = "hello"
    /\ \E rc \in ReadInt(buf, OffsetOf(rep, "RetCode")),
          amt \in ReadInt(buf, OffsetOf(rep, "amount")) :
         result' = [who |-> "hello", port |-> xcall.port, err |-> xcall.ret,
                    rc |-> rc, amt |-> amt]
    /\ table' = mach_port_deallocate(table, xcall.rcv_name).tbl
    /\ xpc' = "idle"
    /\ xcall' = NoXcall
    /\ buf' = <<>>
    /\ timer' = 0
    /\ UNCHANGED <<clsState, cls_MachPort, nameID, ctorID, initCount, objs, raw,
                   pc, loc, crashed, mid_position, wire>>

(***************************************************************************)
(* Mach.c: Java_org_gnu_mach_Mach_msg.                                     *)
(***************************************************************************)
Capacities == {24, 64}
Positions == {0, 24}

\* The java.nio.ByteBuffer objects a caller may pass, with the destination
\* the caller wrote in the header: direct ones, and one on the Java heap.
\* java.nio keeps 0 <= position <= capacity.
ValidBuffer(b) == b.position <= b.capacity

Buffers ==
    {b \in [direct : {TRUE}, capacity : Capacities, position : Positions,
            dest : {MACH_PORT_NULL, DportName(1)}] : ValidBuffer(b)}
    \cup {[direct |-> FALSE, capacity |-> 24, position |-> 0,
           dest |-> MACH_PORT_NULL]}

\* The names a caller asks to receive on: none, and one that may hold a right.
RcvNames == {MACH_PORT_NULL, MaxName}

\* Every combination of the four option bits.
Options ==
    {s + r + st + rt : s \in {0, MACH_SEND_MSG}, r \in {0, MACH_RCV_MSG},
                       st \in {0, MACH_SEND_TIMEOUT}, rt \in {0, MACH_RCV_TIMEOUT}}

\* JNI: NULL and -1 for a buffer that is not direct.
GetDirectBufferAddress(b) == IF b.direct THEN 1 ELSE NULL
GetDirectBufferCapacity(b) == IF b.direct THEN b.capacity ELSE 0 - 1

\* An option argument narrowed to its low byte.
Mach_msg_args_low_byte(msg, option, rcvName, timeout, notify) ==
    [option |-> option % 256, send_size |-> msg.position,
     rcv_size |-> GetDirectBufferCapacity(msg), rcv_name |-> rcvName,
     timeout |-> timeout, notify |-> notify]

\* line 27: mach_msg(msgAddr, option, msgPos, msgSize, rcvName, timeout, notify)
Mach_msg_args(msg, option, rcvName, timeout, notify) ==
    [option |-> option, send_size |-> msg.position,
     rcv_size |-> GetDirectBufferCapacity(msg), rcv_name |-> rcvName,
     timeout |-> timeout, notify |-> notify]

\* lines 16-27: up to the entry into mach_msg; the assertion of line 25 ends
\* the process when the buffer is not direct.
Mach_msg(msg, option, rcvName, timeout, notify) ==
    /\ crashed = "no"
    /\ xpc = "idle"
    /\ \A t \in Threads : pc[t] = "idle"
    /\ ValidBuffer(msg)
    /\ IF GetDirectBufferAddress(msg) = NULL
       THEN Crash("assert:Mach.msg")
       ELSE \E full \in BOOLEAN :
              LET a == Mach_msg_args(msg, option, rcvName, timeout, notify)
              IN  /\ full => Has(a.option, MACH_SEND_MSG)
                  /\ mid_position' = 1
                  /\ xcall' =
                       [NoXcall EXCEPT
                          !.who = "Mach.msg", !.asked = option,
                          !.option = a.option,
                          !.send_size = a.send_size, !.rcv_size = a.rcv_size,
                          !.rcv_name = a.rcv_name, !.timeout = a.timeout,
                          !.notify = a.notify, !.bufsize = msg.capacity,
                          !.dest = msg.dest, !.qfull = full]
                  /\ xpc' = "send"
                  /\ timer' = a.timeout
                  /\ wire' = NoWire
                  /\ result' = NoResult
                  /\ UNCHANGED <<portVars, buf>>

\* mach_msg's status goes back to Java as the jint.
MsgReturn ==
    /\ xpc = "kret"
    /\ xcall.who = "Mach.msg"
    /\ result' = [NoResult EXCEPT !.who = "Mach.msg", !.err = xcall.ret]
    /\ xpc' = "idle"
    /\ xcall' = NoXcall
    /\ timer' = 0
    /\ wire' = NoWire
    /\ UNCHANGED <<portVars, mid_position, buf>>

\* A process that has used Hurd.getdport(1) once: the class is initialised and
\* one MachPort wraps the port of descriptor 1.
AfterGetdport ==
    /\ table = getdport(InitTable, 1).tbl
    /\ clsState = "done"
    /\ cls_MachPort = "stale"
    /\ nameID = 1
    /\ ctorID = 1
    /\ initCount = 1
    /\ objs = [o \in ObjIds |->
                 IF o = 1
                 THEN [NewMachPort(DportName(1)) EXCEPT
                          !.from = "Hurd.getdport", !.owns = TRUE,
                          !.wrapped = DportName(1)]
                 ELSE NoObj]

InitMsg ==
    /\ \/ InitCache /\ table = InitTable /\ objs = [o \in ObjIds |-> NoObj]
       \/ AfterGetdport
    /\ raw = [n \in Names |-> "none"]
    /\ pc = [t \in {"t1"} |-> "idle"]
    /\ loc = [t \in {"t1"} |-> NoLoc]
    /\ crashed = "no"
    /\ InitMsgVars

NextMsg ==
    \/ \E port \in Usable \cup {NULL} : HelloCall(port)
    \/ HelloReturn
    \/ \E msg \in Buffers, option \in Options, rcvName \in RcvNames,
          timeout \in 0..MaxTimeout :
         Mach_msg(msg, option, rcvName, timeout, MACH_PORT_NULL)
    \/ MsgReturn
    \/ KSend
    \/ QueueDrain
    \/ Tick
    \/ SendTimeout
    \/ RcvTimeout
    \/ Deliver
    \/ \E t \in Threads, o \in ObjIds \cup {NULL} : xpc = "idle" /\ GetPort(t, o)
    \/ \E t \in Threads : Return(t)

\* The kernel's clock runs, a send that can proceed does, an expired wait
\* ends, and a call that the kernel has finished returns.  Nothing obliges
\* another task to send a message or to empty a queue.
SpecMsg ==
    /\ InitMsg
    /\ [][NextMsg]_vars
    /\ WF_vars(KSend)
    /\ WF_vars(Tick)
    /\ WF_vars(SendTimeout)
    /\ WF_vars(RcvTimeout)
    /\ WF_vars(MsgReturn)
    /\ WF_vars(HelloReturn)

(***************************************************************************)
(* The claims about handles (Spec).                                        *)
(***************************************************************************)
Returned(t, ops) == pc[t] = "ret" /\ loc[t].op \in ops

C2_AllocateReportsFailure ==
    \A t \in Threads :
        Returned(t, {"MachPort.allocate"}) =>
            IF loc[t].kerr # KERN_SUCCESS
            THEN loc[t].obj = NULL /\ loc[t].reported = loc[t].kerr
            ELSE loc[t].obj # NULL =>
                    /\ objs[loc[t].obj].name = loc[t].name
                    /\ table[loc[t].name].kind = "receive"

\* C4: a handle from MachPort.allocate is deallocated with success, which
\* leaves no entry for its name in the task's IPC space, and a second
\* deallocation of it reports an invalid name to the caller.
C4_AllocateThenDeallocate ==
    \A t \in Threads :
        (/\ Returned(t, {"deallocate"})
         /\ objs[loc[t].obj].from = "MachPort.allocate"
         /\ objs[loc[t].obj].owns)
        => /\ loc[t].nth = 1 =>
                /\ loc[t].kerr = KERN_SUCCESS
                /\ table[loc[t].name].kind = "none"
           /\ loc[t].nth = 2 => loc[t].reported = KERN_INVALID_NAME

\* C6: for every name n, getport(makeport(n)) is n.
C6_RoundTripAlways ==
    \A t \in Threads :
        Returned(t, MakeOps) => mach_java_getport(loc[t].obj).val = loc[t].name

\* The round trip through an object makeport did return, and the value a
\* later getport call on the live handle gives.
RoundTrip ==
    \A t \in Threads :
        /\ Returned(t, MakeOps) /\ loc[t].obj # NULL
            => mach_java_getport(loc[t].obj).val = loc[t].name
        /\ Returned(t, {"getport"}) /\ loc[t].obj # NULL /\ objs[loc[t].obj].live
            => loc[t].value = objs[loc[t].obj].wrapped

\* What does hold of the round trip: whenever makeport(n) returns an object,
\* getport of that object is n, and a getport call changes neither the objects
\* (their names, their liveness) nor the task's IPC space.
RoundTripOfObjects ==
    [][/\ RoundTrip'
       /\ \A t \in Threads :
            pc[t] = "idle" /\ pc'[t] = "ret" /\ loc'[t].op = "getport"
                => objs' = objs /\ table' = table]_vars

\* The references name n holds in the task's IPC space, and its owners: the
\* descriptor table and the objects that were handed a reference to n and
\* have not released it.
HeldRefs(n) ==
    IF table[n].kind = "send" THEN table[n].urefs
    ELSE IF table[n].kind = "none" THEN 0 ELSE 1

Owners(n) ==
    (IF n \in {DportName(fd) : fd \in OpenFds} THEN 1 ELSE 0)
    + Cardinality({o \in ObjIds :
                     /\ objs[o].exists /\ objs[o].owns
                     /\ objs[o].name = n /\ ~objs[o].released})

\* C9: when makeport returns no object, the reference it was handed has been
\* released: the name holds no reference without an owner.
C9_NoUnownedReference ==
    \A t \in Threads :
        Returned(t, MakeOps) /\ HandedRef(loc[t]) /\ loc[t].obj = NULL
            => HeldRefs(loc[t].name) <= Owners(loc[t].name)

(***************************************************************************)
(* The claim about the metadata cache (SpecCache).                         *)
(***************************************************************************)
\* C3: under every interleaving of two threads' first uses, the cache is
\* initialised once and no thread is at NewObject while only part of the
\* cache (cls_MachPort, nameID, ctorID) is written.
C3_CacheNeverHalfWritten ==
    /\ initCount <= 1
    /\ \A t \in Threads :
         pc[t] = "mk26" =>
            /\ (cls_MachPort # "NULL") = (ctorID # NULL)
            /\ (nameID # NULL) = (ctorID # NULL)

(***************************************************************************)
(* The claims about messages (SpecMsg).                                    *)
(***************************************************************************)
RemotePortBytes(b) ==
    Get(b, OffsetOf(req, "hdr") + OffsetOf(mach_msg_header_t, "msgh_remote_port"), 4)

\* C5: mach_java_getport of a null object returns MACH_PORT_NULL, without
\* failing and without reading the metadata cache, whether or not the cache
\* was ever initialised; the request hello builds from a null handle has
\* MACH_PORT_NULL as its destination.
C5_NullHandleIsNullPort ==
    /\ crashed # "GetIntField"
    /\ \A t \in Threads :
         Returned(t, {"getport"}) /\ loc[t].obj = NULL
            => loc[t].value = MACH_PORT_NULL /\ loc[t].reads = {}
    /\ xpc = "send" /\ xcall.who = "hello" /\ xcall.port = NULL
         => /\ xcall.reads = {}
            /\ DecU(RemotePortBytes(buf)) = MACH_PORT_NULL
            /\ xcall.dest = MACH_PORT_NULL

\* hello was called with a null handle before the cache was ever written, and
\* its request is on its way into the kernel.
C5_Witness ==
    /\ xpc = "send" /\ xcall.who = "hello" /\ xcall.port = NULL
    /\ nameID = NULL /\ clsState = "uninit"
    /\ Defined(RemotePortBytes(buf))

\* C7: hello calls mach_msg with send+receive and no timeout; the request its
\* peer gets has id 21000, the 14 characters "Hello, World!\n" and offset -1,
\* is addressed to the given port and names as reply port the receive right
\* that hello allocated (when the kernel did allocate one); and when the exchange succeeds with a reply of status 0 and
\* amount n, hello reads back status 0 and amount n.
C7_HelloExchange ==
    /\ xcall.who = "hello" /\ InKernel
         => /\ xcall.option = MACH_SEND_MSG + MACH_RCV_MSG
            /\ xcall.timeout = MACH_MSG_TIMEOUT_NONE
    /\ xcall.who = "hello" /\ wire.sent
         => /\ wire.id = 21000
            /\ wire.data = HelloWorld
            /\ wire.offset = 0 - 1
            /\ wire.dest = objs[xcall.port].name
            /\ wire.reply = xcall.rcv_name
            /\ xcall.fresh => table[wire.reply].kind = "receive"
    /\ result.who = "hello" /\ result.err = MACH_MSG_SUCCESS
          /\ wire.replied /\ wire.rc = 0
         => result.rc = 0 /\ result.amt = wire.amt

\* hello has returned from an exchange in which the peer replied 0 and 14.
C7_Witness ==
    /\ result.who = "hello" /\ result.err = MACH_MSG_SUCCESS
    /\ wire.replied /\ wire.rc = 0 /\ wire.amt = 14
    /\ result.rc = 0 /\ result.amt = 14

MsgPending == xcall.who = "Mach.msg" /\ InKernel

\* The caller asked for a bounded wait in each direction it asked for.
TimeoutsArmed ==
    /\ Has(xcall.asked, MACH_SEND_MSG) => Has(xcall.asked, MACH_SEND_TIMEOUT)
    /\ Has(xcall.asked, MACH_RCV_MSG) => Has(xcall.asked, MACH_RCV_TIMEOUT)

\* C8 as stated: a Mach.msg call given a bounded timeout always returns,
\* whatever option flags the caller passes.
C8_BoundedTimeoutReturns == (MsgPending /\ xcall.timeout > 0) ~> ~MsgPending

\* C8, amended: a Mach.msg call given a bounded timeout always returns when
\* its options carry MACH_SEND_TIMEOUT with MACH_SEND_MSG and MACH_RCV_TIMEOUT
\* with MACH_RCV_MSG; a wait that ends with no message delivered, or with the
\* queue still full, reports the timeout status of its direction.
C8_ArmedTimeoutReturns ==
    /\ (MsgPending /\ xcall.timeout > 0 /\ TimeoutsArmed) ~> ~MsgPending
    /\ [](xpc = "kret" /\ xcall.who = "Mach.msg" /\ xcall.timeout > 0
            => /\ xcall.waited /\ ~xcall.delivered
                  => xcall.ret = MACH_RCV_TIMED_OUT
               /\ ~xcall.waited /\ xcall.qfull
                     /\ SendError(xcall) = MACH_MSG_SUCCESS
                  => xcall.ret = MACH_SEND_TIMED_OUT)

\* Mach.msg has waited out a bounded receive and reports the timeout.
C8_Witness ==
    /\ xpc = "kret" /\ xcall.who = "Mach.msg"
    /\ xcall.timeout > 0 /\ TimeoutsArmed
    /\ xcall.waited /\ ~xcall.delivered
    /\ xcall.ret = MACH_RCV_TIMED_OUT

\* C10: while a call of this layer is in mach_msg, neither the send size nor
\* the receive limit it passed exceeds the size of the buffer it passed.
C10_SizesWithinBuffer ==
    InKernel =>
        /\ 0 <= xcall.send_size /\ xcall.send_size <= xcall.bufsize
        /\ 0 <= xcall.rcv_size /\ xcall.rcv_size <= xcall.bufsize

\* hello waits for its reply with a receive limit of the whole union.
C10_Witness ==
    /\ xpc = "rcv" /\ xcall.who = "hello"
    /\ xcall.send_size < xcall.bufsize
    /\ xcall.rcv_size = xcall.bufsize

====
